---- MODULE Spec2Model ----
(***************************************************************************)
(* Quiz authoring, attempt lifecycle and grading of senseLearn             *)
(* (src/src/quiz/models.py, student_routes.py, tutor_routes.py).           *)
(*                                                                         *)
(* The database tables are functions from primary keys to rows.  Spec      *)
(* runs every request handler as one step (one request at a time);         *)
(* SpecConc runs the student handlers as two steps, the reads of the       *)
(* request's transaction and its commit, so that requests served by        *)
(* different pool connections interleave.                                  *)
(* SpecAuthor adds the tutor's edits and deletes of questions and quizzes  *)
(* between the requests of one student; SpecGrade grades text answers     *)
(* over all short texts.  SpecCross has two quizzes and two students,      *)
(* whose requests name each other's attempts, questions and options;       *)
(* SpecView lets time pass between the attempts of one student and adds    *)
(* the student's lists of attempts and of quizzes.                         *)
(***************************************************************************)
EXTENDS Integers, Sequences, FiniteSets, TLC

\* ------------------------------------------------------------------ bounds
MaxQuizzes == 1
MaxQuestions == 1
MaxAttempts == 2
MaxInflight == 2

\* ------------------------------------------------------------------ values
\* NULL of a numeric, key or boolean column; booleans that may be NULL are
\* held as MySQL holds them, 1 and 0.
NULL == -1
\* NULL of a text column (None); texts are sequences of characters.
NullText == <<"NULL">>

Students == {"s1", "s2"}
Tutors == {"t1"}
Users == Students \cup Tutors

\* CourseStudent rows with status 'enrolled' and course_tutors rows of the
\* one course the quizzes belong to (external roster, fixed here).
Enrolled == {"s1", "s2"}
Assigned == {"t1"}

user_type(u) == IF u \in Students THEN "student" ELSE "tutor"

Whitespace == {" "}

LowerChar(c) == IF c = "A" THEN "a" ELSE IF c = "B" THEN "b" ELSE c

Lower(s) == [i \in 1..Len(s) |-> LowerChar(s[i])]

RECURSIVE LStrip(_)
LStrip(s) == IF s # <<>> /\ Head(s) \in Whitespace THEN LStrip(Tail(s)) ELSE s

RECURSIVE RStrip(_)
RStrip(s) ==
    IF s # <<>> /\ s[Len(s)] \in Whitespace
    THEN RStrip(SubSeq(s, 1, Len(s) - 1))
    ELSE s

Strip(s) == RStrip(LStrip(s))

\* Python's `x or ''` on a text that may be None.
OrEmpty(s) == IF s = NullText THEN <<>> ELSE s

\* ------------------------------------------------------------------ state
VARIABLES
    quizzes,    \* quizzes table: id -> row
    questions,  \* quiz_questions table: id -> row
    options,    \* quiz_question_options table: id -> row
    attempts,   \* quiz_attempts table: id -> row
    answers,    \* quiz_answers table: id -> row
    seq,        \* AUTO_INCREMENT counter of each table
    now,        \* datetime.utcnow(), in seconds (advanced by Tick in SpecView)
    resp,       \* the response of the last request served
    inflight,   \* requests that have read and not yet committed (SpecConc)
    submitted,  \* attempt id -> number of submit requests answered 200
    refused,    \* (student, quiz) pairs whose latest start met the attempt limit
    saved_grade \* answer id -> the is_correct of the answer by the
                \* definitions of the time it was last saved

vars == <<quizzes, questions, options, attempts, answers, seq, now, resp,
          inflight, submitted, refused, saved_grade>>

db == <<quizzes, questions, options, attempts, answers, seq>>

Tables == {"quiz", "question", "option", "attempt", "answer"}

Init ==
    /\ quizzes = <<>>
    /\ questions = <<>>
    /\ options = <<>>
    /\ attempts = <<>>
    /\ answers = <<>>
    /\ seq = [t \in Tables |-> 1]
    /\ now = 0
    /\ resp = [op |-> "none", user |-> "none", arg |-> NULL, status |-> 0,
               error |-> "none", id |-> NULL]
    /\ inflight = <<>>
    /\ submitted = <<>>
    /\ refused = {}
    /\ saved_grade = <<>>

\* ------------------------------------------------------------------ helpers
Insert(table, id, row) == table @@ (id :> row)

RECURSIVE Sum(_, _)
Sum(f, S) ==
    IF S = {} THEN 0
    ELSE LET x == CHOOSE y \in S : TRUE IN f[x] + Sum(f, S \ {x})

Min(S) == CHOOSE x \in S : \A y \in S : x <= y

Response(op, user, arg, status, error, id) ==
    [op |-> op, user |-> user, arg |-> arg, status |-> status,
     error |-> error, id |-> id]

\* DECIMAL(5,2) columns (points, score, passing_score, ...) are held in
\* hundredths: 100 is 1.00.
Hundredths == 100

\* ------------------------------------------------------------------ models.py
\* Quiz.questions
QuestionsOf(qs, quiz_id) == {q \in DOMAIN qs : qs[q].quiz_id = quiz_id}

\* Quiz.get_total_points
get_total_points(qs, quiz_id) ==
    Sum([q \in DOMAIN qs |-> qs[q].points], QuestionsOf(qs, quiz_id))

\* Question.options
OptionsOf(os, question_id) == {o \in DOMAIN os : os[o].question_id = question_id}

\* question.options.filter_by(is_correct=True).first(), the options ordered
\* by order_index (the position in the submitted list, so by id); NULL is None.
CorrectOption(os, question_id) ==
    LET correct == {o \in OptionsOf(os, question_id) : os[o].is_correct}
    IN  IF correct = {} THEN NULL ELSE Min(correct)

Bool(b) == IF b THEN 1 ELSE 0

\* The decimal digits, each at its value plus one.
Digits == <<"0", "1", "2", "3", "4", "5", "6", "7", "8", "9">>

\* Whether int(s) returns: s is, between whitespace, a run of digits (signs
\* and underscores are left out of the texts).
IsInt(s) ==
    /\ Strip(s) # <<>>
    /\ \A i \in 1..Len(Strip(s)) : \E d \in 1..Len(Digits) : Digits[d] = Strip(s)[i]

\* The value of a run of digits.
RECURSIVE DigitsValue(_)
DigitsValue(s) ==
    IF s = <<>> THEN 0
    ELSE 10 * DigitsValue(SubSeq(s, 1, Len(s) - 1))
            + (CHOOSE d \in 1..Len(Digits) : Digits[d] = s[Len(s)]) - 1

\* int(s)
ParseInt(s) == DigitsValue(Strip(s))

\* check_answer with the texts compared as they are.
check_answer_Exact(qs, os, question_id, student_answer) ==
    IF qs[question_id].question_type = "multiple_choice"
    THEN LET correct_option == CorrectOption(os, question_id)
         IN  IF correct_option = NULL THEN FALSE
             ELSE IF IsInt(student_answer)
             THEN ParseInt(student_answer) = correct_option
             ELSE student_answer = os[correct_option].option_text
    ELSE IF qs[question_id].question_type \in {"true_false", "short_answer"}
    THEN OrEmpty(qs[question_id].correct_answer) = OrEmpty(student_answer)
    ELSE FALSE

\* Question.check_answer of question question_id; student_answer is a text.
check_answer(qs, os, question_id, student_answer) ==
    IF qs[question_id].question_type = "multiple_choice"
    THEN LET correct_option == CorrectOption(os, question_id)
         IN  IF correct_option = NULL THEN FALSE
             ELSE IF IsInt(student_answer)
             THEN ParseInt(student_answer) = correct_option
             ELSE Lower(Strip(student_answer))
                    = Lower(Strip(os[correct_option].option_text))
    ELSE IF qs[question_id].question_type \in {"true_false", "short_answer"}
    THEN Lower(Strip(OrEmpty(qs[question_id].correct_answer)))
            = Lower(Strip(OrEmpty(student_answer)))
    ELSE FALSE

\* Answer.check_and_update: the is_correct it stores (NULL when `None and ...`).
GradeIsCorrect(qs, os, answer) ==
    LET question == qs[answer.question_id]
    IN  IF question.question_type = "multiple_choice"
        THEN IF answer.option_id # NULL
             THEN LET correct_option == CorrectOption(os, answer.question_id)
                  IN  IF correct_option = NULL THEN NULL
                      ELSE Bool(answer.option_id = correct_option)
             ELSE 0
        ELSE Bool(check_answer(qs, os, answer.question_id,
                               OrEmpty(answer.answer_text)))

\* Answer.check_and_update: the points_earned it stores.
GradePoints(qs, os, answer) ==
    IF GradeIsCorrect(qs, os, answer) = 1
    THEN qs[answer.question_id].points
    ELSE 0

check_and_update(qs, os, answer) ==
    [answer EXCEPT !.is_correct = GradeIsCorrect(qs, os, answer),
                   !.points_earned = GradePoints(qs, os, answer)]

\* Attempt.answers
AnswersOf(ans, attempt_id) == {a \in DOMAIN ans : ans[a].attempt_id = attempt_id}

\* (total_points / max_points) * 100 stored in a DECIMAL(5,2): hundredths,
\* rounded half up.
ScoreOf(total_points, max_points) ==
    IF max_points > 0
    THEN (2 * 100 * Hundredths * total_points + max_points) \div (2 * max_points)
    ELSE 0

\* QuizAttempt.calculate_score over the graded answers `graded` (id -> row).
CalcMaxPoints(qs, graded) ==
    Sum([a \in DOMAIN graded |-> qs[graded[a].question_id].points], DOMAIN graded)

CalcTotalPoints(qs, graded) ==
    Sum([a \in DOMAIN graded |->
            IF graded[a].is_correct = 1
            THEN qs[graded[a].question_id].points ELSE 0],
        DOMAIN graded)

\* calculate_score returning at once, as for an attempt not completed.
calculate_score_Skipped(qs, graded, attempt) == attempt

calculate_score(qs, graded, attempt) ==
    IF ~attempt.is_completed THEN attempt
    ELSE [attempt EXCEPT
            !.total_points = CalcTotalPoints(qs, graded),
            !.max_points = CalcMaxPoints(qs, graded),
            !.score = ScoreOf(CalcTotalPoints(qs, graded), CalcMaxPoints(qs, graded))]

\* QuizAttempt.is_passing
is_passing(attempt, quiz) ==
    IF quiz.passing_score \in {NULL, 0} \/ attempt.score \in {NULL, 0}
    THEN FALSE
    ELSE attempt.score >= quiz.passing_score

\* ------------------------------------------------------------------ tutor_routes.py
\* CourseModule rows of the course.
CourseModules == {1}

DefaultPassingScore == 60 * Hundredths

DefaultMaxAttempts == 1

QuestionTypes == {"multiple_choice", "short_answer", "true_false"}

\* The quiz row create_quiz inserts; `data` is the request body, a record
\* holding the keys that were sent.
NewQuiz(data) ==
    [module_id |-> IF "module_id" \in DOMAIN data THEN data.module_id ELSE NULL,
     time_limit_minutes |-> IF "time_limit_minutes" \in DOMAIN data
                            THEN data.time_limit_minutes ELSE NULL,
     passing_score |-> DefaultPassingScore,
     max_attempts |-> IF "max_attempts" \in DOMAIN data
                      THEN data.max_attempts ELSE DefaultMaxAttempts,
     is_active |-> TRUE]

create_quiz(u, data) ==
    /\ IF user_type(u) # "tutor"
       THEN /\ resp' = Response("create_quiz", u, NULL, 403, "Unauthorized", NULL)
            /\ UNCHANGED db
       ELSE IF u \notin Assigned
       THEN /\ resp' = Response("create_quiz", u, NULL, 404, "NotAssigned", NULL)
            /\ UNCHANGED db
       ELSE IF Strip(OrEmpty(data.title)) = <<>>
       THEN /\ resp' = Response("create_quiz", u, NULL, 400, "Validation", NULL)
            /\ UNCHANGED db
       ELSE IF /\ "module_id" \in DOMAIN data
               /\ data.module_id # NULL
               /\ data.module_id \notin CourseModules
       THEN /\ resp' = Response("create_quiz", u, NULL, 404, "InvalidReference", NULL)
            /\ UNCHANGED db
       ELSE /\ quizzes' = Insert(quizzes, seq.quiz, NewQuiz(data))
            /\ seq' = [seq EXCEPT !.quiz = @ + 1]
            /\ resp' = Response("create_quiz", u, NULL, 201, "none", seq.quiz)
            /\ UNCHANGED <<questions, options, attempts, answers>>
    /\ UNCHANGED <<now, inflight, submitted, refused, saved_grade>>

\* The quiz row update_quiz leaves: only the keys sent are assigned.
UpdatedQuiz(quiz, data) ==
    [quiz EXCEPT
        !.time_limit_minutes = IF "time_limit_minutes" \in DOMAIN data
                               THEN data.time_limit_minutes ELSE @,
        !.passing_score = IF "passing_score" \in DOMAIN data
                          THEN data.passing_score ELSE @,
        !.max_attempts = IF "max_attempts" \in DOMAIN data
                         THEN data.max_attempts ELSE @,
        !.is_active = IF "is_active" \in DOMAIN data THEN data.is_active ELSE @]

update_quiz(u, quiz_id, data) ==
    /\ IF user_type(u) # "tutor"
       THEN /\ resp' = Response("update_quiz", u, quiz_id, 403, "Unauthorized", NULL)
            /\ UNCHANGED db
       ELSE IF quiz_id \notin DOMAIN quizzes
       THEN /\ resp' = Response("update_quiz", u, quiz_id, 500, "NotFound", NULL)
            /\ UNCHANGED db
       ELSE IF u \notin Assigned
       THEN /\ resp' = Response("update_quiz", u, quiz_id, 404, "NotAssigned", NULL)
            /\ UNCHANGED db
       ELSE /\ quizzes' = [quizzes EXCEPT ![quiz_id] = UpdatedQuiz(@, data)]
            /\ resp' = Response("update_quiz", u, quiz_id, 200, "none", quiz_id)
            /\ UNCHANGED <<questions, options, attempts, answers, seq>>
    /\ UNCHANGED <<now, inflight, submitted, refused, saved_grade>>

\* sum(1 for opt in options if opt.get('is_correct', False))
CorrectCount(opts) == Cardinality({i \in 1..Len(opts) : opts[i].is_correct})

\* OptionsError without the count of the correct options.
OptionsError_NoCorrectCount(opts) ==
    IF Len(opts) < 2 THEN "TooFewOptions" ELSE "none"

\* The check add_question and update_question make of a submitted option list.
OptionsError(opts) ==
    IF Len(opts) < 2 THEN "TooFewOptions"
    ELSE IF CorrectCount(opts) # 1 THEN "CorrectCount"
    ELSE "none"

\* The option rows inserted for the list `opts`, keyed from `first`.
NewOptions(question_id, opts, first) ==
    [o \in first..(first + Len(opts) - 1) |->
        [question_id |-> question_id,
         option_text |-> Strip(OrEmpty(opts[o - first + 1].option_text)),
         is_correct |-> opts[o - first + 1].is_correct]]

NewQuestion(quiz_id, data) ==
    [quiz_id |-> quiz_id,
     question_type |-> data.question_type,
     question_text |-> Strip(OrEmpty(data.question_text)),
     points |-> data.points,
     correct_answer |-> IF data.question_type \in {"short_answer", "true_false"}
                        THEN Strip(OrEmpty(data.correct_answer))
                        ELSE NullText]

add_question(u, quiz_id, data) ==
    /\ IF user_type(u) # "tutor"
       THEN /\ resp' = Response("add_question", u, quiz_id, 403, "Unauthorized", NULL)
            /\ UNCHANGED db
       ELSE IF quiz_id \notin DOMAIN quizzes
       THEN /\ resp' = Response("add_question", u, quiz_id, 500, "NotFound", NULL)
            /\ UNCHANGED db
       ELSE IF u \notin Assigned
       THEN /\ resp' = Response("add_question", u, quiz_id, 404, "NotAssigned", NULL)
            /\ UNCHANGED db
       ELSE IF \/ data.question_type \notin QuestionTypes
               \/ Strip(OrEmpty(data.question_text)) = <<>>
               \/ data.points = NULL
               \/ data.points <= 0
       THEN /\ resp' = Response("add_question", u, quiz_id, 400, "Validation", NULL)
            /\ UNCHANGED db
       ELSE IF /\ data.question_type = "multiple_choice"
               /\ OptionsError(data.options) # "none"
       THEN \* db.session.rollback(): the flushed question row is gone
            /\ resp' = Response("add_question", u, quiz_id, 400, "Validation", NULL)
            /\ UNCHANGED db
       ELSE /\ questions' = Insert(questions, seq.question, NewQuestion(quiz_id, data))
            /\ IF data.question_type = "multiple_choice"
               THEN /\ options' = options
                        @@ NewOptions(seq.question, data.options, seq.option)
                    /\ seq' = [seq EXCEPT !.question = @ + 1,
                                          !.option = @ + Len(data.options)]
               ELSE /\ options' = options
                    /\ seq' = [seq EXCEPT !.question = @ + 1]
            /\ resp' = Response("add_question", u, quiz_id, 201, "none", seq.question)
            /\ UNCHANGED <<quizzes, attempts, answers>>
    /\ UNCHANGED <<now, inflight, submitted, refused, saved_grade>>

\* The rows of `table` with the keys in `keep`.
Restrict(table, keep) == [k \in keep |-> table[k]]

\* quiz_answers.option_id is ON DELETE SET NULL: the answers once the option
\* rows `gone` are deleted.
OptionSetNull(ans, gone) ==
    [a \in DOMAIN ans |->
        IF ans[a].option_id \in gone
        THEN [ans[a] EXCEPT !.option_id = NULL]
        ELSE ans[a]]

\* The question row update_question leaves: only the keys sent are assigned,
\* none of them checked.
UpdatedQuestion(question, data) ==
    [question EXCEPT
        !.question_text = IF "question_text" \in DOMAIN data
                          THEN Strip(OrEmpty(data.question_text)) ELSE @,
        !.points = IF "points" \in DOMAIN data THEN data.points ELSE @,
        !.correct_answer =
            IF /\ "correct_answer" \in DOMAIN data
               /\ question.question_type \in {"short_answer", "true_false"}
            THEN Strip(OrEmpty(data.correct_answer)) ELSE @]

\* The option rows left by a refused replacement, without the rollback: the
\* question's rows were deleted and flushed.
RejectedOptions_NoRollback(question_id) ==
    Restrict(options, DOMAIN options \ OptionsOf(options, question_id))

\* The option rows left by a refused replacement: db.session.rollback()
\* undoes the delete.
RejectedOptions(question_id) == options

update_question(u, question_id, data) ==
    /\ IF user_type(u) # "tutor"
       THEN /\ resp' = Response("update_question", u, question_id, 403,
                                "Unauthorized", NULL)
            /\ UNCHANGED db
       ELSE IF question_id \notin DOMAIN questions
       THEN /\ resp' = Response("update_question", u, question_id, 500,
                                "NotFound", NULL)
            /\ UNCHANGED db
       ELSE IF u \notin Assigned
       THEN /\ resp' = Response("update_question", u, question_id, 404,
                                "NotAssigned", NULL)
            /\ UNCHANGED db
       ELSE IF "points" \in DOMAIN data /\ data.points = NULL
       THEN \* Decimal(str(None)) raises InvalidOperation: rollback
            /\ resp' = Response("update_question", u, question_id, 400,
                                "Validation", NULL)
            /\ UNCHANGED db
       ELSE IF /\ questions[question_id].question_type = "multiple_choice"
               /\ "options" \in DOMAIN data
       THEN IF OptionsError(data.options) # "none"
            THEN \* db.session.rollback(): the assigned fields and the deleted
                 \* options are back
                 /\ resp' = Response("update_question", u, question_id, 400,
                                     "Validation", NULL)
                 /\ options' = RejectedOptions(question_id)
                 /\ UNCHANGED <<quizzes, questions, attempts, answers, seq>>
            ELSE /\ questions' = [questions EXCEPT
                        ![question_id] = UpdatedQuestion(@, data)]
                 /\ options' =
                        Restrict(options,
                                 DOMAIN options \ OptionsOf(options, question_id))
                        @@ NewOptions(question_id, data.options, seq.option)
                 /\ answers' = OptionSetNull(answers, OptionsOf(options, question_id))
                 /\ seq' = [seq EXCEPT !.option = @ + Len(data.options)]
                 /\ resp' = Response("update_question", u, question_id, 200,
                                     "none", question_id)
                 /\ UNCHANGED <<quizzes, attempts>>
       ELSE /\ questions' = [questions EXCEPT
                    ![question_id] = UpdatedQuestion(@, data)]
            /\ resp' = Response("update_question", u, question_id, 200,
                                "none", question_id)
            /\ UNCHANGED <<quizzes, options, attempts, answers, seq>>
    /\ UNCHANGED <<now, inflight, submitted, refused, saved_grade>>

\* CascadeAnswers without the cascade: the answer rows stay.
CascadeAnswers_Keep(ans, qs, ats) == ans

\* cascade="all, delete-orphan" of Question.answers and QuizAttempt.answers:
\* the answer rows left once the questions qs and the attempts ats are deleted.
CascadeAnswers(ans, qs, ats) ==
    Restrict(ans, {a \in DOMAIN ans : /\ ans[a].question_id \notin qs
                                      /\ ans[a].attempt_id \notin ats})

\* db.session.delete(question): the question, its options and its answers
\* go (cascade), and option_id is SET NULL where another answer held one of
\* the options.
delete_question(u, question_id) ==
    /\ IF user_type(u) # "tutor"
       THEN /\ resp' = Response("delete_question", u, question_id, 403,
                                "Unauthorized", NULL)
            /\ UNCHANGED db
       ELSE IF question_id \notin DOMAIN questions
       THEN /\ resp' = Response("delete_question", u, question_id, 500,
                                "NotFound", NULL)
            /\ UNCHANGED db
       ELSE IF u \notin Assigned
       THEN /\ resp' = Response("delete_question", u, question_id, 404,
                                "NotAssigned", NULL)
            /\ UNCHANGED db
       ELSE /\ questions' = Restrict(questions, DOMAIN questions \ {question_id})
            /\ options' = Restrict(options,
                                   DOMAIN options \ OptionsOf(options, question_id))
            /\ answers' = OptionSetNull(CascadeAnswers(answers, {question_id}, {}),
                                        OptionsOf(options, question_id))
            /\ resp' = Response("delete_question", u, question_id, 200, "none",
                                question_id)
            /\ UNCHANGED <<quizzes, attempts, seq>>
    /\ saved_grade' = Restrict(saved_grade, DOMAIN answers')
    /\ UNCHANGED <<now, inflight, submitted, refused>>

\* db.session.delete(quiz): the quiz, its questions with their options, its
\* attempts and their answers go (cascade).
delete_quiz(u, quiz_id) ==
    /\ IF user_type(u) # "tutor"
       THEN /\ resp' = Response("delete_quiz", u, quiz_id, 403, "Unauthorized", NULL)
            /\ UNCHANGED db
       ELSE IF quiz_id \notin DOMAIN quizzes
       THEN /\ resp' = Response("delete_quiz", u, quiz_id, 500, "NotFound", NULL)
            /\ UNCHANGED db
       ELSE IF u \notin Assigned
       THEN /\ resp' = Response("delete_quiz", u, quiz_id, 404, "NotAssigned", NULL)
            /\ UNCHANGED db
       ELSE LET qs == QuestionsOf(questions, quiz_id)
                os == {o \in DOMAIN options : options[o].question_id \in qs}
                ats == {a \in DOMAIN attempts : attempts[a].quiz_id = quiz_id}
            IN  /\ quizzes' = Restrict(quizzes, DOMAIN quizzes \ {quiz_id})
                /\ questions' = Restrict(questions, DOMAIN questions \ qs)
                /\ options' = Restrict(options, DOMAIN options \ os)
                /\ attempts' = Restrict(attempts, DOMAIN attempts \ ats)
                /\ answers' = OptionSetNull(CascadeAnswers(answers, qs, ats), os)
                /\ resp' = Response("delete_quiz", u, quiz_id, 200, "none", quiz_id)
                /\ UNCHANGED seq
    /\ saved_grade' = Restrict(saved_grade, DOMAIN answers')
    /\ UNCHANGED <<now, inflight, submitted, refused>>

\* ------------------------------------------------------------------ student_routes.py
\* Every handler reads, decides and then commits.  The decision taken from
\* the rows read is a plan; applying the plan is the commit.  Under Spec the
\* two happen in one step.

CompletedAttempts(quiz_id, u) ==
    {a \in DOMAIN attempts : /\ attempts[a].quiz_id = quiz_id
                             /\ attempts[a].student_id = u
                             /\ attempts[a].is_completed}

IncompleteAttempts(quiz_id, u) ==
    {a \in DOMAIN attempts : /\ attempts[a].quiz_id = quiz_id
                             /\ attempts[a].student_id = u
                             /\ ~attempts[a].is_completed}

Reject(status, error) == [kind |-> "reject", status |-> status, error |-> error]

\* `if quiz.max_attempts:` and the count of completed attempts against it.
LimitReached(quiz_id, u) ==
    /\ quizzes[quiz_id].max_attempts \notin {NULL, 0}
    /\ Cardinality(CompletedAttempts(quiz_id, u)) >= quizzes[quiz_id].max_attempts

\* StartPlan without the lookup of an incomplete attempt.
StartPlan_NoResume(u, quiz_id) ==
    IF user_type(u) # "student" THEN Reject(403, "Unauthorized")
    ELSE IF quiz_id \notin DOMAIN quizzes THEN Reject(500, "NotFound")
    ELSE IF u \notin Enrolled THEN Reject(404, "NotEnrolled")
    ELSE IF ~quizzes[quiz_id].is_active THEN Reject(400, "QuizInactive")
    ELSE IF LimitReached(quiz_id, u) THEN Reject(400, "AttemptLimitExceeded")
    ELSE [kind |-> "create", quiz_id |-> quiz_id, student_id |-> u,
          started_at |-> now]

\* start_quiz_attempt up to the insert.
StartPlan(u, quiz_id) ==
    IF user_type(u) # "student" THEN Reject(403, "Unauthorized")
    ELSE IF quiz_id \notin DOMAIN quizzes THEN Reject(500, "NotFound")
    ELSE IF u \notin Enrolled THEN Reject(404, "NotEnrolled")
    ELSE IF ~quizzes[quiz_id].is_active THEN Reject(400, "QuizInactive")
    ELSE IF LimitReached(quiz_id, u) THEN Reject(400, "AttemptLimitExceeded")
    ELSE IF IncompleteAttempts(quiz_id, u) # {}
    THEN [kind |-> "resume", id |-> Min(IncompleteAttempts(quiz_id, u))]
    ELSE [kind |-> "create", quiz_id |-> quiz_id, student_id |-> u,
          started_at |-> now]

NewAttempt(plan) ==
    [quiz_id |-> plan.quiz_id, student_id |-> plan.student_id,
     started_at |-> plan.started_at, submitted_at |-> NULL,
     is_completed |-> FALSE, score |-> NULL, total_points |-> NULL,
     max_points |-> NULL]

\* The insert and commit of start_quiz_attempt.
StartCommit(u, plan) ==
    IF plan.quiz_id \notin DOMAIN quizzes
    THEN \* the foreign key fails: rollback
         /\ resp' = Response("start", u, plan.quiz_id, 500, "Internal", NULL)
         /\ UNCHANGED <<db, submitted>>
    ELSE /\ attempts' = Insert(attempts, seq.attempt, NewAttempt(plan))
         /\ seq' = [seq EXCEPT !.attempt = @ + 1]
         /\ submitted' = Insert(submitted, seq.attempt, 0)
         /\ resp' = Response("start", u, plan.quiz_id, 201, "none", seq.attempt)
         /\ UNCHANGED <<quizzes, questions, options, answers>>

\* The pairs whose latest start was answered AttemptLimitExceeded, after a
\* start of u for quiz_id answered `error`.
RefusedAfter(u, quiz_id, error) ==
    IF error = "AttemptLimitExceeded"
    THEN refused \cup {<<u, quiz_id>>}
    ELSE refused \ {<<u, quiz_id>>}

start_quiz_attempt(u, quiz_id) ==
    LET plan == StartPlan(u, quiz_id) IN
    /\ CASE plan.kind = "reject" ->
                /\ resp' = Response("start", u, quiz_id, plan.status, plan.error, NULL)
                /\ UNCHANGED <<db, submitted>>
         [] plan.kind = "resume" ->
                /\ resp' = Response("start", u, quiz_id, 200, "none", plan.id)
                /\ UNCHANGED <<db, submitted>>
         [] plan.kind = "create" -> StartCommit(u, plan)
    /\ refused' = RefusedAfter(u, quiz_id, resp'.error)
    /\ UNCHANGED <<now, inflight, saved_grade>>

\* Answer.query.filter_by(attempt_id=..., question_id=...).first()
ExistingAnswers(attempt_id, question_id) ==
    {a \in DOMAIN answers : /\ answers[a].attempt_id = attempt_id
                            /\ answers[a].question_id = question_id}

\* The values save_answer stores for a question of the given type.
AnswerValues(question_type, data) ==
    IF question_type = "multiple_choice"
    THEN [answer_text |-> NullText, option_id |-> data.option_id]
    ELSE [answer_text |-> Strip(OrEmpty(data.answer_text)), option_id |-> NULL]

\* SavePlan without the check of attempt.is_completed.
SavePlan_NoCompletedCheck(u, attempt_id, data) ==
    IF user_type(u) # "student" THEN Reject(403, "Unauthorized")
    ELSE IF attempt_id \notin DOMAIN attempts THEN Reject(500, "NotFound")
    ELSE IF attempts[attempt_id].student_id # u THEN Reject(403, "Unauthorized")
    ELSE IF data.question_id \in {NULL, 0} THEN Reject(400, "Validation")
    ELSE IF \/ data.question_id \notin DOMAIN questions
            \/ questions[data.question_id].quiz_id # attempts[attempt_id].quiz_id
    THEN Reject(400, "InvalidQuestion")
    ELSE LET values ==
                AnswerValues(questions[data.question_id].question_type, data)
             existing == ExistingAnswers(attempt_id, data.question_id)
         IN  IF existing # {}
             THEN [kind |-> "update", id |-> Min(existing), values |-> values]
             ELSE [kind |-> "insert", attempt_id |-> attempt_id,
                   question_id |-> data.question_id, values |-> values]

\* SavePlan without the check that the question is one of the attempt's quiz.
SavePlan_NoQuizCheck(u, attempt_id, data) ==
    IF user_type(u) # "student" THEN Reject(403, "Unauthorized")
    ELSE IF attempt_id \notin DOMAIN attempts THEN Reject(500, "NotFound")
    ELSE IF attempts[attempt_id].student_id # u THEN Reject(403, "Unauthorized")
    ELSE IF attempts[attempt_id].is_completed THEN Reject(400, "AttemptCompleted")
    ELSE IF data.question_id \in {NULL, 0} THEN Reject(400, "Validation")
    ELSE IF data.question_id \notin DOMAIN questions
    THEN Reject(400, "InvalidQuestion")
    ELSE LET values ==
                AnswerValues(questions[data.question_id].question_type, data)
             existing == ExistingAnswers(attempt_id, data.question_id)
         IN  IF existing # {}
             THEN [kind |-> "update", id |-> Min(existing), values |-> values]
             ELSE [kind |-> "insert", attempt_id |-> attempt_id,
                   question_id |-> data.question_id, values |-> values]

\* save_answer up to the commit.
SavePlan(u, attempt_id, data) ==
    IF user_type(u) # "student" THEN Reject(403, "Unauthorized")
    ELSE IF attempt_id \notin DOMAIN attempts THEN Reject(500, "NotFound")
    ELSE IF attempts[attempt_id].student_id # u THEN Reject(403, "Unauthorized")
    ELSE IF attempts[attempt_id].is_completed THEN Reject(400, "AttemptCompleted")
    ELSE IF data.question_id \in {NULL, 0} THEN Reject(400, "Validation")
    ELSE IF \/ data.question_id \notin DOMAIN questions
            \/ questions[data.question_id].quiz_id # attempts[attempt_id].quiz_id
    THEN Reject(400, "InvalidQuestion")
    ELSE LET values ==
                AnswerValues(questions[data.question_id].question_type, data)
             existing == ExistingAnswers(attempt_id, data.question_id)
         IN  IF existing # {}
             THEN [kind |-> "update", id |-> Min(existing), values |-> values]
             ELSE [kind |-> "insert", attempt_id |-> attempt_id,
                   question_id |-> data.question_id, values |-> values]

\* NewAnswer with the row graded as it is stored.
NewAnswer_Graded(plan) ==
    [attempt_id |-> plan.attempt_id, question_id |-> plan.question_id,
     answer_text |-> plan.values.answer_text,
     option_id |-> plan.values.option_id,
     is_correct |-> 0, points_earned |-> 0]

NewAnswer(plan) ==
    [attempt_id |-> plan.attempt_id, question_id |-> plan.question_id,
     answer_text |-> plan.values.answer_text,
     option_id |-> plan.values.option_id,
     is_correct |-> NULL, points_earned |-> NULL]

\* AnswerInsertOk without the unique key uq_attempt_question.
AnswerInsertOk_NoUniqueKey(plan) ==
    /\ plan.attempt_id \in DOMAIN attempts
    /\ plan.question_id \in DOMAIN questions
    /\ plan.values.option_id # NULL => plan.values.option_id \in DOMAIN options

\* The foreign keys and the unique key uq_attempt_question of quiz_answers.
AnswerInsertOk(plan) ==
    /\ plan.attempt_id \in DOMAIN attempts
    /\ plan.question_id \in DOMAIN questions
    /\ plan.values.option_id # NULL => plan.values.option_id \in DOMAIN options
    /\ ExistingAnswers(plan.attempt_id, plan.question_id) = {}

AnswerUpdateOk(plan) ==
    /\ plan.id \in DOMAIN answers
    /\ plan.values.option_id # NULL => plan.values.option_id \in DOMAIN options

\* The is_correct the definitions of this moment give an answer row.
GradeNow(answer) == GradeIsCorrect(questions, options, answer)

\* The write and commit of save_answer.
SaveCommit(u, attempt_id, plan) ==
    CASE plan.kind = "insert" /\ AnswerInsertOk(plan) ->
            /\ answers' = Insert(answers, seq.answer, NewAnswer(plan))
            /\ saved_grade' = Insert(saved_grade, seq.answer,
                                     GradeNow(NewAnswer(plan)))
            /\ seq' = [seq EXCEPT !.answer = @ + 1]
            /\ resp' = Response("save_answer", u, attempt_id, 200, "none", seq.answer)
            /\ UNCHANGED <<quizzes, questions, options, attempts>>
      [] plan.kind = "update" /\ AnswerUpdateOk(plan) ->
            /\ answers' = [answers EXCEPT ![plan.id] =
                    [@ EXCEPT !.answer_text = plan.values.answer_text,
                              !.option_id = plan.values.option_id]]
            /\ saved_grade' = [saved_grade EXCEPT ![plan.id] =
                                    GradeNow(answers'[plan.id])]
            /\ resp' = Response("save_answer", u, attempt_id, 200, "none", plan.id)
            /\ UNCHANGED <<quizzes, questions, options, attempts, seq>>
      [] OTHER ->
            \* IntegrityError or StaleDataError: rollback
            /\ resp' = Response("save_answer", u, attempt_id, 500, "Internal", NULL)
            /\ UNCHANGED <<db, saved_grade>>

save_answer(u, attempt_id, data) ==
    LET plan == SavePlan(u, attempt_id, data) IN
    /\ IF plan.kind = "reject"
       THEN /\ resp' = Response("save_answer", u, attempt_id, plan.status,
                                plan.error, NULL)
            /\ UNCHANGED <<db, saved_grade>>
       ELSE SaveCommit(u, attempt_id, plan)
    /\ UNCHANGED <<now, inflight, submitted, refused>>

\* GradedAnswers by the definitions of the time each answer was saved.
GradedAnswers_AsSaved(attempt_id) ==
    [a \in AnswersOf(answers, attempt_id) |->
        [answers[a] EXCEPT
            !.is_correct = saved_grade[a],
            !.points_earned = IF saved_grade[a] = 1
                              THEN questions[answers[a].question_id].points
                              ELSE 0]]

\* The attempt's answers as submit_quiz_attempt grades them.
GradedAnswers(attempt_id) ==
    [a \in AnswersOf(answers, attempt_id) |->
        check_and_update(questions, options, answers[a])]

\* SubmitPlan without the check that the attempt is the caller's.
SubmitPlan_NoOwnerCheck(u, attempt_id) ==
    IF user_type(u) # "student" THEN Reject(403, "Unauthorized")
    ELSE IF attempt_id \notin DOMAIN attempts THEN Reject(500, "NotFound")
    ELSE IF attempts[attempt_id].is_completed THEN Reject(400, "AttemptCompleted")
    ELSE LET graded == GradedAnswers(attempt_id)
             marked == [attempts[attempt_id] EXCEPT !.is_completed = TRUE,
                                                    !.submitted_at = now]
         IN  [kind |-> "grade", graded |-> graded,
              attempt |-> calculate_score(questions, graded, marked)]

\* submit_quiz_attempt up to the commit.
SubmitPlan(u, attempt_id) ==
    IF user_type(u) # "student" THEN Reject(403, "Unauthorized")
    ELSE IF attempt_id \notin DOMAIN attempts THEN Reject(500, "NotFound")
    ELSE IF attempts[attempt_id].student_id # u THEN Reject(403, "Unauthorized")
    ELSE IF attempts[attempt_id].is_completed THEN Reject(400, "AttemptCompleted")
    ELSE LET graded == GradedAnswers(attempt_id)
             marked == [attempts[attempt_id] EXCEPT !.is_completed = TRUE,
                                                    !.submitted_at = now]
         IN  [kind |-> "grade", graded |-> graded,
              attempt |-> calculate_score(questions, graded, marked)]

\* The greatest value of a DECIMAL(5,2) column, 999.99.
DecimalMax == 99999

FitsDecimal(x) == x = NULL \/ (0 - DecimalMax <= x /\ x <= DecimalMax)

\* The value a DECIMAL(5,2) column takes outside strict SQL mode.
ClipDecimal(x) ==
    IF x > DecimalMax THEN DecimalMax
    ELSE IF x # NULL /\ x < 0 - DecimalMax THEN 0 - DecimalMax ELSE x

\* The writes and commit of submit_quiz_attempt (calculate_score commits).
\* A total that does not fit its column is an error under strict SQL mode
\* (the server's default) and is clipped otherwise; the application sets no
\* sql_mode.
SubmitCommit(u, attempt_id, plan) ==
    IF \/ attempt_id \notin DOMAIN attempts
       \/ ~(DOMAIN plan.graded \subseteq DOMAIN answers)
    THEN \* StaleDataError: rollback
         /\ resp' = Response("submit", u, attempt_id, 500, "Internal", NULL)
         /\ UNCHANGED <<db, submitted>>
    ELSE
    \/ \* DataError (out of range value): rollback
       /\ ~(/\ FitsDecimal(plan.attempt.total_points)
            /\ FitsDecimal(plan.attempt.max_points)
            /\ FitsDecimal(plan.attempt.score))
       /\ resp' = Response("submit", u, attempt_id, 500, "Internal", NULL)
       /\ UNCHANGED <<db, submitted>>
    \/   /\ answers' = [a \in DOMAIN answers |->
                IF a \in DOMAIN plan.graded
                THEN [answers[a] EXCEPT
                        !.is_correct = plan.graded[a].is_correct,
                        !.points_earned = plan.graded[a].points_earned]
                ELSE answers[a]]
         /\ attempts' = [attempts EXCEPT ![attempt_id] =
                [@ EXCEPT !.is_completed = plan.attempt.is_completed,
                          !.submitted_at = plan.attempt.submitted_at,
                          !.total_points = ClipDecimal(plan.attempt.total_points),
                          !.max_points = ClipDecimal(plan.attempt.max_points),
                          !.score = ClipDecimal(plan.attempt.score)]]
         /\ submitted' = [submitted EXCEPT ![attempt_id] = @ + 1]
         /\ resp' = Response("submit", u, attempt_id, 200, "none", attempt_id)
         /\ UNCHANGED <<quizzes, questions, options, seq>>

submit_quiz_attempt(u, attempt_id) ==
    LET plan == SubmitPlan(u, attempt_id) IN
    /\ IF plan.kind = "reject"
       THEN /\ resp' = Response("submit", u, attempt_id, plan.status, plan.error, NULL)
            /\ UNCHANGED <<db, submitted>>
       ELSE SubmitCommit(u, attempt_id, plan)
    /\ UNCHANGED <<now, inflight, refused, saved_grade>>

\* get_quiz_questions: the questions of the attempt's quiz and the answers
\* saved so far, for the attempt's student while the attempt is in progress.
QuestionsPlan(u, attempt_id) ==
    IF user_type(u) # "student" THEN Reject(403, "Unauthorized")
    ELSE IF attempt_id \notin DOMAIN attempts THEN Reject(500, "NotFound")
    ELSE IF attempts[attempt_id].student_id # u THEN Reject(403, "Unauthorized")
    ELSE IF attempts[attempt_id].is_completed THEN Reject(400, "AttemptCompleted")
    ELSE [kind |-> "list",
          questions |-> QuestionsOf(questions, attempts[attempt_id].quiz_id),
          existing_answers |-> AnswersOf(answers, attempt_id)]

get_quiz_questions(u, attempt_id) ==
    LET plan == QuestionsPlan(u, attempt_id) IN
    /\ IF plan.kind = "reject"
       THEN resp' = Response("questions", u, attempt_id, plan.status,
                             plan.error, NULL)
       ELSE resp' = [op |-> "questions", user |-> u, arg |-> attempt_id,
                     status |-> 200, error |-> "none", id |-> attempt_id,
                     questions |-> plan.questions,
                     existing_answers |-> plan.existing_answers]
    /\ UNCHANGED <<db, now, inflight, submitted, refused, saved_grade>>

\* QuizAttempt.query.filter_by(quiz_id=..., student_id=...)
AttemptsOf(quiz_id, u) ==
    {a \in DOMAIN attempts : /\ attempts[a].quiz_id = quiz_id
                             /\ attempts[a].student_id = u}

\* order_by(submitted_at.desc(), started_at.desc()): row a may come before
\* row b.  NULL sorts below every datetime, so last in descending order.
MayPrecede(a, b) ==
    \/ attempts[a].submitted_at > attempts[b].submitted_at
    \/ /\ attempts[a].submitted_at = attempts[b].submitted_at
       /\ attempts[a].started_at >= attempts[b].started_at

\* The orders in which the query may return the rows of S: rows equal in
\* both sort keys come in either order.
Listings(S) ==
    {l \in [1..Cardinality(S) -> S] :
        /\ \A i, j \in DOMAIN l : i # j => l[i] # l[j]
        /\ \A i, j \in DOMAIN l : i < j => MayPrecede(l[i], l[j])}

\* LatestCompleted by the greatest score.
LatestCompleted_BestScore(l) ==
    LET done == {i \in DOMAIN l : attempts[l[i]].is_completed}
    IN  IF done = {} THEN NULL
        ELSE l[CHOOSE i \in done :
                  \A j \in done : attempts[l[i]].score >= attempts[l[j]].score]

\* latest_completed: the first completed attempt of the listing.
LatestCompleted(l) ==
    LET done == {i \in DOMAIN l : attempts[l[i]].is_completed}
    IN  IF done = {} THEN NULL ELSE l[Min(done)]

\* list_student_attempts: open to every logged-in user.
list_student_attempts(u, quiz_id) ==
    /\ IF quiz_id \notin DOMAIN quizzes
       THEN resp' = [op |-> "list_attempts", user |-> u, arg |-> quiz_id,
                     status |-> 404, error |-> "NotFound", id |-> NULL,
                     attempts |-> <<>>]
       ELSE \E l \in Listings(AttemptsOf(quiz_id, u)) :
                resp' = [op |-> "list_attempts", user |-> u, arg |-> quiz_id,
                         status |-> 200, error |-> "none",
                         id |-> LatestCompleted(l),
                         attempts |-> [i \in DOMAIN l |->
                            [id |-> l[i],
                             is_latest |-> l[i] = LatestCompleted(l)]]]
    /\ UNCHANGED <<db, now, inflight, submitted, refused, saved_grade>>

\* list_course_quizzes_student: max(completed_attempts, key=submitted_at),
\* the attempts the maximum may be (the query is not ordered).
LatestAttempts(quiz_id, u) ==
    {a \in CompletedAttempts(quiz_id, u) :
        \A b \in CompletedAttempts(quiz_id, u) :
            attempts[a].submitted_at >= attempts[b].submitted_at}

\* list_course_quizzes_student: the active quizzes of the course, each with
\* the score of the student's latest completed attempt.
list_course_quizzes_student(u) ==
    /\ IF user_type(u) # "student"
       THEN resp' = Response("list_quizzes", u, NULL, 403, "Unauthorized", NULL)
       ELSE IF u \notin Enrolled
       THEN resp' = Response("list_quizzes", u, NULL, 404, "NotEnrolled", NULL)
       ELSE LET active == {q \in DOMAIN quizzes : quizzes[q].is_active}
                taken == {q \in active : CompletedAttempts(q, u) # {}}
            IN  \E latest \in [taken -> DOMAIN attempts] :
                    /\ \A q \in taken : latest[q] \in LatestAttempts(q, u)
                    /\ resp' = [op |-> "list_quizzes", user |-> u, arg |-> NULL,
                                status |-> 200, error |-> "none", id |-> NULL,
                                quizzes |-> [q \in active |->
                                    [can_take |-> ~LimitReached(q, u),
                                     latest_score |->
                                        IF q \in taken
                                        THEN attempts[latest[q]].score
                                        ELSE NULL]]]
    /\ UNCHANGED <<db, now, inflight, submitted, refused, saved_grade>>

\* ------------------------------------------------------------------ requests
Title == <<"a">>

QuizInputs ==
    {[title |-> Title], [title |-> <<" ">>],
     [title |-> Title, module_id |-> 2],
     [title |-> Title, max_attempts |-> 2]}

MaxAttemptsInputs == {NULL, 0, 1, 2}

QuizUpdates ==
    {[max_attempts |-> m] : m \in MaxAttemptsInputs}
        \cup {[is_active |-> b] : b \in BOOLEAN}

MultipleChoice(points, opts) ==
    [question_type |-> "multiple_choice", question_text |-> Title,
     points |-> points, correct_answer |-> NullText, options |-> opts]

TextQuestion(type, text, points, correct) ==
    [question_type |-> type, question_text |-> text, points |-> points,
     correct_answer |-> correct, options |-> <<>>]

Option(text, is_correct) == [option_text |-> text, is_correct |-> is_correct]

QuestionInputs ==
    {MultipleChoice(2 * Hundredths, <<Option(<<"3">>, FALSE), Option(<<"4">>, TRUE)>>),
     MultipleChoice(2 * Hundredths, <<Option(<<"4">>, TRUE)>>),
     MultipleChoice(2 * Hundredths, <<Option(<<"3">>, TRUE), Option(<<"4">>, TRUE)>>),
     TextQuestion("true_false", Title, Hundredths, <<"a">>),
     TextQuestion("true_false", <<" ">>, Hundredths, <<"a">>),
     TextQuestion("true_false", Title, 0, <<"a">>),
     TextQuestion("essay", Title, Hundredths, <<"a">>)}

AnswerTexts == {<<" ", "A">>, <<"b">>}

\* A key of no row.
Missing == 9

\* The request bodies of save_answer: a text for a question, or an option of
\* the question.
AnswerInputs ==
    {[question_id |-> q, answer_text |-> t, option_id |-> NULL] :
        q \in DOMAIN questions, t \in AnswerTexts}
    \cup {[question_id |-> q, answer_text |-> <<"b">>, option_id |-> NULL] :
        q \in {NULL, Missing}}
    \cup UNION {{[question_id |-> q, answer_text |-> NullText, option_id |-> o] :
                    o \in OptionsOf(options, q)} : q \in DOMAIN questions}

QuizIds == DOMAIN quizzes

AttemptIds == DOMAIN attempts

\* ------------------------------------------------------------------ Spec
\* One request at a time, each handler from its first read to its response.
CreateQuiz ==
    /\ Cardinality(DOMAIN quizzes) < MaxQuizzes
    /\ \E u \in Users, data \in QuizInputs : create_quiz(u, data)

UpdateQuiz ==
    \E u \in Users, q \in QuizIds, data \in QuizUpdates : update_quiz(u, q, data)

AddQuestion ==
    /\ Cardinality(DOMAIN questions) < MaxQuestions
    /\ \E u \in Users, q \in QuizIds, data \in QuestionInputs :
            add_question(u, q, data)

StartQuizAttempt ==
    \E u \in Students, q \in QuizIds :
        /\ StartPlan(u, q).kind = "create"
                => Cardinality(DOMAIN attempts) < MaxAttempts
        /\ start_quiz_attempt(u, q)

SaveAnswer ==
    \E u \in Students, a \in AttemptIds, data \in AnswerInputs : save_answer(u, a, data)

SubmitQuizAttempt ==
    \E u \in Students, a \in AttemptIds : submit_quiz_attempt(u, a)

Next ==
    \/ CreateQuiz
    \/ UpdateQuiz
    \/ AddQuestion
    \/ StartQuizAttempt
    \/ SaveAnswer
    \/ SubmitQuizAttempt

Spec == Init /\ [][Next]_vars

\* ------------------------------------------------------------------ SpecConc
\* Requests served at once, each on its own pooled connection.  A student
\* request reads (its transaction's snapshot) in one step and writes and
\* commits in a later one; a request that writes nothing answers at once.
\* The student whose requests race.
ConcStudents == {"s1"}

Idle == [op |-> "idle"]

IdleInit == inflight = [c \in 1..MaxInflight |-> Idle]

FreeConnections == {c \in DOMAIN inflight : inflight[c] = Idle}

Park(op, u, arg, plan) ==
    /\ FreeConnections # {}
    /\ inflight' = [inflight EXCEPT ![Min(FreeConnections)] =
            [op |-> op, user |-> u, arg |-> arg, plan |-> plan]]
    /\ UNCHANGED <<db, now, resp, submitted, refused, saved_grade>>

Release(c) == inflight' = [inflight EXCEPT ![c] = Idle]

Starting == {c \in DOMAIN inflight : inflight[c].op = "start"}

StartBegin ==
    \E u \in ConcStudents, q \in QuizIds :
        IF StartPlan(u, q).kind = "create"
        THEN /\ Cardinality(DOMAIN attempts) + Cardinality(Starting) < MaxAttempts
             /\ Park("start", u, q, StartPlan(u, q))
        ELSE start_quiz_attempt(u, q)

StartEnd ==
    \E c \in Starting :
        /\ StartCommit(inflight[c].user, inflight[c].plan)
        /\ refused' = RefusedAfter(inflight[c].user, inflight[c].arg, resp'.error)
        /\ Release(c)
        /\ UNCHANGED <<now, saved_grade>>

SaveBegin ==
    \E u \in ConcStudents, a \in AttemptIds, data \in AnswerInputs :
        IF SavePlan(u, a, data).kind = "reject"
        THEN save_answer(u, a, data)
        ELSE Park("save_answer", u, a, SavePlan(u, a, data))

SaveEnd ==
    \E c \in DOMAIN inflight :
        /\ inflight[c].op = "save_answer"
        /\ SaveCommit(inflight[c].user, inflight[c].arg, inflight[c].plan)
        /\ Release(c)
        /\ UNCHANGED <<now, submitted, refused>>

SubmitBegin ==
    \E u \in ConcStudents, a \in AttemptIds :
        IF SubmitPlan(u, a).kind = "reject"
        THEN submit_quiz_attempt(u, a)
        ELSE Park("submit", u, a, SubmitPlan(u, a))

SubmitEnd ==
    \E c \in DOMAIN inflight :
        /\ inflight[c].op = "submit"
        /\ SubmitCommit(inflight[c].user, inflight[c].arg, inflight[c].plan)
        /\ Release(c)
        /\ UNCHANGED <<now, refused, saved_grade>>

ConcCreateQuiz ==
    /\ Cardinality(DOMAIN quizzes) < MaxQuizzes
    /\ create_quiz("t1", [title |-> Title])

ConcAddQuestion ==
    /\ Cardinality(DOMAIN questions) < MaxQuestions
    /\ \E q \in QuizIds :
            add_question("t1", q, TextQuestion("true_false", Title, Hundredths, <<"a">>))

InitConc ==
    /\ quizzes = <<>>
    /\ questions = <<>>
    /\ options = <<>>
    /\ attempts = <<>>
    /\ answers = <<>>
    /\ seq = [t \in Tables |-> 1]
    /\ now = 0
    /\ resp = Response("none", "none", NULL, 0, "none", NULL)
    /\ IdleInit
    /\ submitted = <<>>
    /\ refused = {}
    /\ saved_grade = <<>>

NextConc ==
    \/ ConcCreateQuiz
    \/ ConcAddQuestion
    \/ StartBegin
    \/ StartEnd
    \/ SaveBegin
    \/ SaveEnd
    \/ SubmitBegin
    \/ SubmitEnd

SpecConc == InitConc /\ [][NextConc]_vars

\* ------------------------------------------------------------------ SpecAuthor
\* Authoring of a quiz that a student is taking: one request at a time, the
\* tutor's edits and deletes between the student's requests.
MaxAuthored == 2
MaxOptionId == 4
MaxTaken == 1

AuthorQuestions ==
    {MultipleChoice(2 * Hundredths, <<Option(<<"3">>, FALSE), Option(<<"4">>, TRUE)>>),
     MultipleChoice(2 * Hundredths, <<Option(<<"4">>, TRUE)>>),
     TextQuestion("true_false", Title, Hundredths, <<"a">>),
     TextQuestion("essay", Title, Hundredths, <<"a">>),
     TextQuestion("true_false", <<" ">>, Hundredths, <<"a">>),
     TextQuestion("true_false", Title, 0, <<"a">>),
     TextQuestion("true_false", Title, NULL, <<"a">>)}

QuestionUpdates ==
    {[points |-> 0 - Hundredths],
     [points |-> NULL, question_text |-> <<"b">>],
     [question_text |-> <<" ">>],
     [correct_answer |-> <<"b">>],
     [options |-> <<Option(<<"4">>, TRUE), Option(<<"3">>, FALSE)>>],
     [options |-> <<Option(<<"4">>, TRUE)>>],
     [options |-> <<Option(<<"3">>, TRUE), Option(<<"4">>, TRUE)>>]}

PassingScoreUpdates == {[passing_score |-> 0]}

AuthorCreateQuiz ==
    /\ seq.quiz <= MaxQuizzes
    /\ create_quiz("t1", [title |-> Title, max_attempts |-> 2])

AuthorUpdateQuiz ==
    \E q \in QuizIds, data \in PassingScoreUpdates : update_quiz("t1", q, data)

AuthorDeleteQuiz == \E q \in QuizIds : delete_quiz("t1", q)

AuthorAddQuestion ==
    \E q \in QuizIds, data \in AuthorQuestions :
        /\ seq.question <= MaxAuthored
        /\ OptionsError(data.options) = "none"
                => seq.option + Len(data.options) - 1 <= MaxOptionId
        /\ add_question("t1", q, data)

AuthorUpdateQuestion ==
    \E q \in DOMAIN questions, data \in QuestionUpdates :
        /\ ("options" \in DOMAIN data /\ OptionsError(data.options) = "none")
                => seq.option + Len(data.options) - 1 <= MaxOptionId
        /\ update_question("t1", q, data)

AuthorDeleteQuestion == \E q \in DOMAIN questions : delete_question("t1", q)

AuthorStart ==
    \E q \in QuizIds :
        /\ StartPlan("s1", q).kind = "create" => seq.attempt <= MaxTaken
        /\ start_quiz_attempt("s1", q)

AuthorSave ==
    \E a \in AttemptIds, data \in AnswerInputs : save_answer("s1", a, data)

AuthorSubmit == \E a \in AttemptIds : submit_quiz_attempt("s1", a)

NextAuthor ==
    \/ AuthorCreateQuiz
    \/ AuthorUpdateQuiz
    \/ AuthorDeleteQuiz
    \/ AuthorAddQuestion
    \/ AuthorUpdateQuestion
    \/ AuthorDeleteQuestion
    \/ AuthorStart
    \/ AuthorSave
    \/ AuthorSubmit

SpecAuthor == Init /\ [][NextAuthor]_vars

\* ------------------------------------------------------------------ SpecGrade
\* Grading of text answers: one short_answer or true_false question whose
\* correct_answer, and the answer texts sent for it, range over all texts of
\* up to MaxLen characters.
MaxLen == 2

GradeChars == {" ", "a", "A", "b"}

Texts == UNION {[1..n -> GradeChars] : n \in 0..MaxLen}

GradeCreateQuiz ==
    /\ seq.quiz <= MaxQuizzes
    /\ create_quiz("t1", [title |-> Title])

GradeAddQuestion ==
    \E q \in QuizIds, type \in {"short_answer", "true_false"}, correct \in Texts :
        /\ seq.question <= MaxQuestions
        /\ add_question("t1", q, TextQuestion(type, Title, Hundredths, correct))

GradeStart ==
    \E q \in QuizIds :
        /\ StartPlan("s1", q).kind = "create" => seq.attempt <= MaxTaken
        /\ start_quiz_attempt("s1", q)

GradeSave ==
    \E a \in AttemptIds, q \in DOMAIN questions, t \in Texts \cup {NullText} :
        save_answer("s1", a, [question_id |-> q, answer_text |-> t,
                              option_id |-> NULL])

GradeSubmit == \E a \in AttemptIds : submit_quiz_attempt("s1", a)

NextGrade ==
    \/ GradeCreateQuiz
    \/ GradeAddQuestion
    \/ GradeStart
    \/ GradeSave
    \/ GradeSubmit

SpecGrade == Init /\ [][NextGrade]_vars

\* ------------------------------------------------------------------ SpecCross
\* Two quizzes and two students, one request at a time: the requests name
\* attempts, questions and options of any quiz and of any student.
MaxCrossQuizzes == 2
MaxCrossQuestions == 2
MaxCrossAttempts == 2

CrossQuestions ==
    {MultipleChoice(2 * Hundredths, <<Option(<<"3">>, FALSE), Option(<<"4">>, TRUE)>>)}

\* The request bodies of save_answer: any question, or one that does not
\* exist, with the correct option of any question.
CrossAnswers ==
    {[question_id |-> q, answer_text |-> NullText, option_id |-> o] :
        q \in DOMAIN questions \cup {Missing},
        o \in {x \in DOMAIN options : options[x].is_correct}}

CrossCreateQuiz ==
    /\ seq.quiz <= MaxCrossQuizzes
    /\ create_quiz("t1", [title |-> Title])

CrossAddQuestion ==
    \E q \in QuizIds, data \in CrossQuestions :
        /\ seq.question <= MaxCrossQuestions
        /\ Cardinality(QuestionsOf(questions, q)) < MaxQuestions
        /\ add_question("t1", q, data)

CrossStart ==
    \E u \in Students, q \in QuizIds :
        /\ StartPlan(u, q).kind = "create" => seq.attempt <= MaxCrossAttempts
        /\ start_quiz_attempt(u, q)

CrossSave ==
    \E u \in Students, a \in AttemptIds, data \in CrossAnswers :
        save_answer(u, a, data)

CrossSubmit == \E u \in Students, a \in AttemptIds : submit_quiz_attempt(u, a)

CrossGetQuestions ==
    \E u \in Students, a \in AttemptIds : get_quiz_questions(u, a)

CrossListAttempts ==
    \E u \in Students, q \in QuizIds : list_student_attempts(u, q)

NextCross ==
    \/ CrossCreateQuiz
    \/ CrossAddQuestion
    \/ CrossStart
    \/ CrossSave
    \/ CrossSubmit
    \/ CrossGetQuestions
    \/ CrossListAttempts

SpecCross == Init /\ [][NextCross]_vars

\* ------------------------------------------------------------------ SpecView
\* One student taking a quiz twice as time passes, the tutor changing the
\* quiz meanwhile, and the student's views of the attempts.
MaxTime == 2
MinuteSeconds == 60

ViewQuestions == {TextQuestion("true_false", Title, 500 * Hundredths, <<"a">>)}

ViewUpdates == {[is_active |-> FALSE], [max_attempts |-> 1]}

ViewAnswers ==
    {[question_id |-> q, answer_text |-> t, option_id |-> NULL] :
        q \in DOMAIN questions, t \in {<<"a">>, <<"b">>}}

\* A minute passes.
Tick ==
    /\ now < MaxTime * MinuteSeconds
    /\ now' = now + MinuteSeconds
    /\ UNCHANGED <<db, resp, inflight, submitted, refused, saved_grade>>

ViewCreateQuiz ==
    /\ seq.quiz <= MaxQuizzes
    /\ create_quiz("t1", [title |-> Title, max_attempts |-> 2,
                          time_limit_minutes |-> 1])

ViewUpdateQuiz ==
    \E q \in QuizIds, data \in ViewUpdates : update_quiz("t1", q, data)

ViewAddQuestion ==
    \E q \in QuizIds, data \in ViewQuestions :
        /\ seq.question <= MaxAuthored
        /\ add_question("t1", q, data)

ViewStart ==
    \E q \in QuizIds :
        /\ StartPlan("s1", q).kind = "create" => seq.attempt <= MaxAttempts
        /\ start_quiz_attempt("s1", q)

ViewSave ==
    \E a \in AttemptIds, data \in ViewAnswers : save_answer("s1", a, data)

ViewSubmit == \E a \in AttemptIds : submit_quiz_attempt("s1", a)

ViewListAttempts == \E q \in QuizIds : list_student_attempts("s1", q)

ViewListQuizzes == list_course_quizzes_student("s1")

NextView ==
    \/ Tick
    \/ ViewCreateQuiz
    \/ ViewUpdateQuiz
    \/ ViewAddQuestion
    \/ ViewStart
    \/ ViewSave
    \/ ViewSubmit
    \/ ViewListAttempts
    \/ ViewListQuizzes

SpecView == Init /\ [][NextView]_vars

\* ------------------------------------------------------------------ claims
IsCompleted(a) == a \in DOMAIN attempts /\ attempts[a].is_completed

\* C1: no answer of a completed attempt is ungraded (is_correct or
\* points_earned still NULL), whatever the interleaving of save_answer with
\* submit on the attempt.
C1_CompletedMeansGraded ==
    \A x \in DOMAIN answers :
        IsCompleted(answers[x].attempt_id)
            => answers[x].is_correct # NULL /\ answers[x].points_earned # NULL

\* C2: a (quiz, student) pair never has two in-progress attempts, whatever
\* the interleaving of its start requests.
C2_OneInProgress ==
    \A q \in DOMAIN quizzes, u \in Students :
        Cardinality(IncompleteAttempts(q, u)) <= 1

\* C3: with a max_attempts that is not NULL (and in SpecConc never changed),
\* a student's completed attempts of the quiz never outnumber it.
C3_CompletedWithinLimit ==
    \A q \in DOMAIN quizzes, u \in Students :
        quizzes[q].max_attempts # NULL
            => Cardinality(CompletedAttempts(q, u)) <= quizzes[q].max_attempts

\* C4: the step that completes an attempt stores as max_points the sum of the
\* points of all questions of the quiz, answered or not.
C4_MaxPointsIsQuizTotal ==
    [][\A a \in DOMAIN attempts :
            (~attempts[a].is_completed /\ IsCompleted(a)')
                => attempts'[a].max_points
                        = get_total_points(questions, attempts[a].quiz_id)]_vars

\* C5: on a completed attempt every graded answer's is_correct is the grade
\* of the value the answer now holds: no save_answer lands on a completed
\* attempt (the answers left ungraded are C1's).
C5_GradeMatchesStoredValue ==
    \A x \in DOMAIN answers :
        (IsCompleted(answers[x].attempt_id) /\ answers[x].is_correct # NULL)
            => answers[x].is_correct = GradeIsCorrect(questions, options, answers[x])

\* C6: at most one submit of an attempt is answered with success.
C6_OneSuccessfulSubmit == \A a \in DOMAIN submitted : submitted[a] <= 1

\* The rows of the attempt and of its answers.
AttemptRecord(ats, ans, a) ==
    [attempt |-> ats[a], answers |-> [x \in AnswersOf(ans, a) |-> ans[x]]]

\* C7: a completed attempt stays completed and it and its answers stay as
\* they are; a save_answer or submit on it is never answered with success, and
\* its student is answered AttemptCompletedError.
C7_CompletionIsTerminal ==
    [][\A a \in DOMAIN attempts :
            attempts[a].is_completed
                => /\ IsCompleted(a)'
                   /\ AttemptRecord(attempts', answers', a)
                        = AttemptRecord(attempts, answers, a)
                   /\ (resp'.op \in {"save_answer", "submit"} /\ resp'.arg = a)
                        => /\ resp'.status \in {400, 403}
                           /\ resp'.user = attempts[a].student_id
                                => resp'.error = "AttemptCompleted"]_vars

\* C7 witness: the student's save_answer on a completed attempt that holds an
\* answer was refused.
C7_Witness ==
    /\ resp.op = "save_answer"
    /\ resp.error = "AttemptCompleted"
    /\ IsCompleted(resp.arg)
    /\ AnswersOf(answers, resp.arg) # {}

\* C8: a start for an active quiz by a student who has an in-progress attempt
\* of it answers with that attempt and writes nothing, whatever max_attempts
\* and the student's completed attempts are.
C8_StartResumes ==
    [][(/\ resp'.op = "start"
        /\ resp'.arg \in DOMAIN quizzes
        /\ quizzes[resp'.arg].is_active
        /\ IncompleteAttempts(resp'.arg, resp'.user) # {})
            => /\ resp'.status = 200
               /\ resp'.id \in IncompleteAttempts(resp'.arg, resp'.user)
               /\ db' = db]_vars

\* C9: a start that follows a successful start of the same student and quiz
\* answers with the same attempt id and writes nothing.
C9_StartTwice ==
    [][(/\ resp.op = "start"
        /\ resp.status \in {200, 201}
        /\ resp'.op = "start"
        /\ resp'.user = resp.user
        /\ resp'.arg = resp.arg)
            => /\ resp'.status = 200
               /\ resp'.id = resp.id
               /\ db' = db]_vars

\* C9 witness: a start found the attempt the start before it had created.
C9_Witness ==
    /\ resp.op = "start"
    /\ resp.status = 200
    /\ resp.id \in IncompleteAttempts(resp.arg, resp.user)
    /\ AnswersOf(answers, resp.id) = {}

\* C10: a start for an active quiz whose max_attempts is not NULL, by a
\* student with no in-progress attempt and at least max_attempts completed
\* ones, is answered AttemptLimitExceededError and writes nothing.
C10_LimitRefuses ==
    [][(/\ resp'.op = "start"
        /\ resp'.arg \in DOMAIN quizzes
        /\ quizzes[resp'.arg].is_active
        /\ quizzes[resp'.arg].max_attempts # NULL
        /\ IncompleteAttempts(resp'.arg, resp'.user) = {}
        /\ Cardinality(CompletedAttempts(resp'.arg, resp'.user))
                >= quizzes[resp'.arg].max_attempts)
            => /\ resp'.error = "AttemptLimitExceeded"
               /\ db' = db]_vars

\* C11: a start by a student whose latest start of the quiz was refused for
\* the attempt limit, made when the quiz is active and its max_attempts is
\* above the student's completed attempts, is answered 201 with a new
\* in-progress attempt.
C11_RaisedLimitAdmits ==
    [][(/\ resp'.op = "start"
        /\ <<resp'.user, resp'.arg>> \in refused
        /\ resp'.arg \in DOMAIN quizzes
        /\ quizzes[resp'.arg].is_active
        /\ quizzes[resp'.arg].max_attempts # NULL
        /\ quizzes[resp'.arg].max_attempts
                > Cardinality(CompletedAttempts(resp'.arg, resp'.user)))
            => /\ resp'.status = 201
               /\ resp'.id \notin DOMAIN attempts
               /\ resp'.id \in DOMAIN attempts'
               /\ ~attempts'[resp'.id].is_completed]_vars

\* C12: every multiple_choice question has at least 2 options and exactly
\* one of them is_correct, after add_question and after update_question
\* whether it replaced the options or refused to.
C12_OneCorrectOption ==
    \A q \in DOMAIN questions :
        questions[q].question_type = "multiple_choice"
            => /\ Cardinality(OptionsOf(options, q)) >= 2
               /\ Cardinality({o \in OptionsOf(options, q) : options[o].is_correct}) = 1

\* C12 witness: update_question has refused an option list for a
\* multiple_choice question whose options an earlier update_question replaced.
C12_Witness ==
    /\ resp.op = "update_question"
    /\ resp.status = 400
    /\ resp.arg \in DOMAIN questions
    /\ questions[resp.arg].question_type = "multiple_choice"
    /\ resp.arg = 1
    /\ OptionsOf(options, resp.arg) = {3, 4}

\* C13: no two answer rows share (attempt, question), whatever the
\* interleaving of the save_answer requests; a save_answer answered with
\* success leaves its row holding the value it submitted, and adds no row
\* when the pair had one.
C13_OneAnswerPerQuestion ==
    [][/\ \A x, y \in DOMAIN answers' :
            (/\ answers'[x].attempt_id = answers'[y].attempt_id
             /\ answers'[x].question_id = answers'[y].question_id) => x = y
       /\ \A c \in DOMAIN inflight :
            (/\ inflight[c].op = "save_answer"
             /\ inflight'[c] = Idle
             /\ resp'.status = 200)
                => /\ answers'[resp'.id].attempt_id = inflight[c].arg
                   /\ answers'[resp'.id].answer_text
                        = inflight[c].plan.values.answer_text
                   /\ answers'[resp'.id].option_id
                        = inflight[c].plan.values.option_id
                   /\ ExistingAnswers(inflight[c].arg,
                                      answers'[resp'.id].question_id) # {}
                        => DOMAIN answers' = DOMAIN answers]_vars

\* C13 witness: of two save_answer requests that both found no row for the
\* pair, the second met the unique key, and the pair has its one row.
C13_Witness ==
    /\ resp.op = "save_answer"
    /\ resp.status = 500
    /\ \E q \in DOMAIN questions :
            Cardinality(ExistingAnswers(resp.arg, q)) = 1

\* C14: a completed attempt and its answers (the rows, with the submitted
\* value, is_correct and points_earned) are left as they are by every
\* request but a delete_quiz.
C14_CompletedIsReadOnly ==
    [][\A a \in DOMAIN attempts :
            (attempts[a].is_completed /\ resp'.op # "delete_quiz")
                => /\ a \in DOMAIN attempts'
                   /\ AttemptRecord(attempts', answers', a)
                        = AttemptRecord(attempts, answers, a)]_vars

\* C15: every completed attempt has a score from 0 to 100 and
\* 0 <= total_points <= max_points.
C15_ScoreInRange ==
    \A a \in DOMAIN attempts :
        attempts[a].is_completed
            => /\ 0 <= attempts[a].score
               /\ attempts[a].score <= 100 * Hundredths
               /\ 0 <= attempts[a].total_points
               /\ attempts[a].total_points <= attempts[a].max_points

\* C16: every stored question has points > 0 and a question_text that is not
\* blank, after any add_question and update_question calls.
C16_QuestionsValid ==
    \A q \in DOMAIN questions :
        /\ questions[q].points > 0
        /\ Strip(questions[q].question_text) # <<>>

\* C17: the answer to a short_answer or true_false question is graded
\* correct exactly when the question's correct_answer and the answer's text
\* are equal after lower-casing and trimming both.
C17_TextGrade ==
    \A x \in DOMAIN answers :
        (/\ IsCompleted(answers[x].attempt_id)
         /\ questions[answers[x].question_id].question_type
                \in {"short_answer", "true_false"})
            => answers[x].is_correct =
                Bool(Strip(Lower(OrEmpty(questions[answers[x].question_id].correct_answer)))
                        = Strip(Lower(OrEmpty(answers[x].answer_text))))

\* C17 witness: an answer graded correct whose text is not, character for
\* character, the question's correct_answer.
C17_Witness ==
    \E x \in DOMAIN answers :
        /\ IsCompleted(answers[x].attempt_id)
        /\ answers[x].is_correct = 1
        /\ answers[x].answer_text # questions[answers[x].question_id].correct_answer

\* The values handed to check_answer for a multiple_choice question.
SubmittedValues ==
    {<<"1">>, <<"2">>, <<"3">>, <<"4">>, <<" ", "4">>, <<"a">>}

\* C18: for a multiple_choice question check_answer is true exactly for the
\* id of the question's correct option and for a text equal to that option's
\* text after trimming and lower-casing, be the option text digits or not.
C18_ChoiceCheck ==
    \A q \in DOMAIN questions, v \in SubmittedValues :
        (/\ questions[q].question_type = "multiple_choice"
         /\ CorrectOption(options, q) # NULL)
            => (check_answer(questions, options, q, v)
                <=> \/ IsInt(v) /\ ParseInt(v) = CorrectOption(options, q)
                    \/ Strip(Lower(v))
                        = Strip(Lower(options[CorrectOption(options, q)].option_text)))

\* C19: the submit that completes an attempt gives each of its answers the
\* question's points when graded correct and 0 otherwise, stores the sum of
\* points_earned as total_points and 100 * total_points / max_points (to the
\* nearest hundredth; 0 when max_points = 0) as score: 100 when every
\* question of the quiz is answered correctly, 0 when every one is answered
\* wrongly.
C19_SubmitScores ==
    [][\A a \in DOMAIN attempts :
        (~attempts[a].is_completed /\ IsCompleted(a)')
            => LET mine == AnswersOf(answers', a)
                   row == attempts'[a]
                   asked == QuestionsOf(questions, row.quiz_id)
                   diff == row.score * row.max_points
                            - 100 * Hundredths * row.total_points
                   size == IF row.max_points < 0 THEN 0 - row.max_points
                           ELSE row.max_points
               IN  /\ \A x \in mine :
                        answers'[x].points_earned =
                            IF answers'[x].is_correct = 1
                            THEN questions[answers'[x].question_id].points
                            ELSE 0
                   /\ row.total_points =
                        Sum([x \in mine |-> answers'[x].points_earned], mine)
                   /\ IF row.max_points = 0 THEN row.score = 0
                      ELSE 2 * diff <= size /\ 0 - size <= 2 * diff
                   /\ (/\ asked # {}
                       /\ \A q \in asked :
                            \E x \in mine : /\ answers'[x].question_id = q
                                            /\ answers'[x].is_correct = 1)
                        => row.score = 100 * Hundredths
                   /\ (/\ asked # {}
                       /\ \A q \in asked :
                            \E x \in mine : /\ answers'[x].question_id = q
                                            /\ answers'[x].is_correct = 0)
                        => row.score = 0]_vars

\* C20: is_passing of a completed attempt is true exactly when its score is
\* at least the passing_score the quiz has now.
C20_PassingIsScoreAtLeast ==
    \A a \in DOMAIN attempts :
        attempts[a].is_completed
            => (is_passing(attempts[a], quizzes[attempts[a].quiz_id])
                <=> attempts[a].score >= quizzes[attempts[a].quiz_id].passing_score)

\* C21: an add_question or update_question that is refused leaves the
\* questions and the options (and the answers that hold them) as they were;
\* after it every multiple_choice question still has its option set.
C21_RejectedLeavesNoTrace ==
    [][(/\ resp'.op \in {"add_question", "update_question"}
        /\ resp'.status \notin {200, 201})
            => /\ questions' = questions
               /\ options' = options
               /\ answers' = answers
               /\ \A q \in DOMAIN questions' :
                    questions'[q].question_type = "multiple_choice"
                        => Cardinality(OptionsOf(options', q)) >= 2]_vars

\* C21 witness: update_question has refused a request for a multiple_choice
\* question that still has the options it was added with.
C21_Witness ==
    /\ resp.op = "update_question"
    /\ resp.status = 400
    /\ resp.arg \in DOMAIN questions
    /\ questions[resp.arg].question_type = "multiple_choice"
    /\ OptionsOf(options, resp.arg) = {1, 2}

\* C22: every answer row is for a question of the quiz of its attempt; a
\* save_answer of the attempt's student that names a question of another quiz,
\* or no question at all, is refused with InvalidQuestionError, and a
\* save_answer refused so writes nothing.
C22_AnswerOfOwnQuiz ==
    [][/\ \A x \in DOMAIN answers' :
            questions'[answers'[x].question_id].quiz_id
                = attempts'[answers'[x].attempt_id].quiz_id
       /\ \A a \in DOMAIN attempts, data \in CrossAnswers :
            (/\ ~attempts[a].is_completed
             /\ \/ data.question_id \notin DOMAIN questions
                \/ questions[data.question_id].quiz_id # attempts[a].quiz_id)
                => SavePlan(attempts[a].student_id, a, data)
                        = Reject(400, "InvalidQuestion")
       /\ (resp'.op = "save_answer" /\ resp'.error = "InvalidQuestion")
            => /\ resp'.status = 400
               /\ db' = db]_vars

\* C22 witness: a save_answer on an in-progress attempt that holds an answer
\* was refused with InvalidQuestionError while the other quiz has a question.
C22_Witness ==
    /\ resp.op = "save_answer"
    /\ resp.error = "InvalidQuestion"
    /\ resp.arg \in DOMAIN attempts
    /\ ~attempts[resp.arg].is_completed
    /\ AnswersOf(answers, resp.arg) # {}
    /\ \E q \in DOMAIN questions : questions[q].quiz_id # attempts[resp.arg].quiz_id

\* C23: no row outlives its parent: every question has its quiz, every option
\* its question, every attempt its quiz, every answer its attempt and its
\* question; after a delete_quiz nothing of that quiz is left, and after a
\* delete_question nothing of that question.
C23_NoOrphans ==
    [][/\ \A q \in DOMAIN questions' : questions'[q].quiz_id \in DOMAIN quizzes'
       /\ \A o \in DOMAIN options' : options'[o].question_id \in DOMAIN questions'
       /\ \A a \in DOMAIN attempts' : attempts'[a].quiz_id \in DOMAIN quizzes'
       /\ \A x \in DOMAIN answers' :
            /\ answers'[x].attempt_id \in DOMAIN attempts'
            /\ answers'[x].question_id \in DOMAIN questions'
       /\ (resp'.op = "delete_quiz" /\ resp'.status = 200)
            => /\ resp'.arg \notin DOMAIN quizzes'
               /\ QuestionsOf(questions', resp'.arg) = {}
               /\ \A o \in DOMAIN options' :
                    options'[o].question_id \notin QuestionsOf(questions, resp'.arg)
               /\ \A a \in DOMAIN attempts' : attempts'[a].quiz_id # resp'.arg
               /\ \A x \in DOMAIN answers' :
                    /\ answers'[x].question_id
                            \notin QuestionsOf(questions, resp'.arg)
                    /\ answers'[x].attempt_id \in DOMAIN attempts
                            => attempts[answers'[x].attempt_id].quiz_id # resp'.arg
       /\ (resp'.op = "delete_question" /\ resp'.status = 200)
            => /\ resp'.arg \notin DOMAIN questions'
               /\ OptionsOf(options', resp'.arg) = {}
               /\ \A x \in DOMAIN answers' :
                    answers'[x].question_id # resp'.arg]_vars

\* C23 witness: a delete_quiz of a quiz that had questions with options and
\* an attempt with two answers has left every table empty.
C23_Witness ==
    /\ resp.op = "delete_quiz"
    /\ resp.status = 200
    /\ seq.question = 3
    /\ seq.option > 1
    /\ seq.attempt = 2
    /\ seq.answer = 3
    /\ questions = <<>> /\ options = <<>> /\ attempts = <<>> /\ answers = <<>>

\* C24: the answers of an attempt that is in progress are ungraded:
\* is_correct and points_earned are null, for a row save_answer inserted and
\* for a row it replaced.
C24_InProgressUngraded ==
    \A x \in DOMAIN answers :
        (/\ answers[x].attempt_id \in DOMAIN attempts
         /\ ~attempts[answers[x].attempt_id].is_completed)
            => /\ answers[x].is_correct = NULL
               /\ answers[x].points_earned = NULL

\* C24 witness: save_answer has replaced the value of an older answer row of
\* an attempt that is in progress.
C24_Witness ==
    /\ resp.op = "save_answer"
    /\ resp.status = 200
    /\ resp.id = 1
    /\ seq.answer = 3
    /\ ~attempts[resp.arg].is_completed
    /\ answers[1].attempt_id = resp.arg

\* C25: the list of a student's attempts of a quiz holds each of the
\* student's attempts of that quiz once; when some are completed exactly one
\* is marked latest, a completed one that no completed one was submitted
\* after, and it is the latest_attempt_id; when none is completed none is
\* marked.  The latest score in the list of the course's quizzes is the score
\* of such an attempt.
C25_LatestIsLastSubmitted ==
    [][/\ (resp'.op = "list_attempts" /\ resp'.status = 200)
            => LET listed == resp'.attempts
                   mine == AttemptsOf(resp'.arg, resp'.user)
                   done == CompletedAttempts(resp'.arg, resp'.user)
                   marked == {i \in DOMAIN listed : listed[i].is_latest}
               IN  /\ {listed[i].id : i \in DOMAIN listed} = mine
                   /\ Len(listed) = Cardinality(mine)
                   /\ IF done = {}
                      THEN marked = {} /\ resp'.id = NULL
                      ELSE /\ Cardinality(marked) = 1
                           /\ \A i \in marked :
                                /\ listed[i].id \in done
                                /\ listed[i].id = resp'.id
                                /\ \A b \in done :
                                     attempts[listed[i].id].submitted_at
                                        >= attempts[b].submitted_at
       /\ (resp'.op = "list_quizzes" /\ resp'.status = 200)
            => \A q \in DOMAIN resp'.quizzes :
                LET done == CompletedAttempts(q, resp'.user)
                IN  IF done = {}
                    THEN resp'.quizzes[q].latest_score = NULL
                    ELSE \E a \in done :
                            /\ resp'.quizzes[q].latest_score = attempts[a].score
                            /\ \A b \in done : attempts[a].submitted_at
                                                >= attempts[b].submitted_at]_vars

\* C25 witness: the list marks the attempt submitted last, and the attempt
\* submitted before it has the higher score.
C25_Witness ==
    /\ resp.op = "list_attempts"
    /\ resp.status = 200
    /\ \E a, b \in CompletedAttempts(resp.arg, resp.user) :
            /\ attempts[a].submitted_at < attempts[b].submitted_at
            /\ attempts[a].score > attempts[b].score
            /\ resp.id = b

\* C26: a submit grades every answer of the attempt by the question as it is
\* at the submit: is_correct by its correct_answer or correct option, and
\* points_earned by its points, whatever they were when the answer was saved.
C26_GradedAsDefinedAtSubmit ==
    [][(resp'.op = "submit" /\ resp'.status = 200)
            => \A x \in AnswersOf(answers, resp'.arg) :
                /\ answers'[x].is_correct
                        = GradeIsCorrect(questions, options, answers[x])
                /\ answers'[x].points_earned
                        = GradePoints(questions, options, answers[x])]_vars

\* C26 witness: a submit has graded an answer otherwise than the question
\* would have graded it when the answer was saved.
C26_Witness ==
    /\ resp.op = "submit"
    /\ resp.status = 200
    /\ \E x \in AnswersOf(answers, resp.arg) :
            /\ saved_grade[x] = 1
            /\ answers[x].is_correct = 0
            /\ answers[x].answer_text # NullText

\* C27: a save_answer, a submit or a listing of an attempt's questions by a
\* user who is not the attempt's student is answered 403; a student's request
\* leaves every other student's attempts and their answers as they were; the
\* answers shown with an attempt's questions are that attempt's; and the list
\* of a student's attempts holds attempts of that student only.
C27_OwnAttemptsOnly ==
    [][/\ (/\ resp'.op \in {"save_answer", "submit", "questions"}
           /\ resp'.arg \in DOMAIN attempts
           /\ attempts[resp'.arg].student_id # resp'.user)
            => /\ resp'.status = 403
               /\ attempts' = attempts
               /\ answers' = answers
       /\ resp'.user \in Students
            => \A a \in DOMAIN attempts :
                attempts[a].student_id # resp'.user
                    => AttemptRecord(attempts', answers', a)
                            = AttemptRecord(attempts, answers, a)
       /\ (resp'.op = "questions" /\ resp'.status = 200)
            => /\ attempts[resp'.arg].student_id = resp'.user
               /\ \A x \in resp'.existing_answers :
                    answers[x].attempt_id = resp'.arg
       /\ (resp'.op = "list_attempts" /\ resp'.status = 200)
            => \A i \in DOMAIN resp'.attempts :
                attempts[resp'.attempts[i].id].student_id = resp'.user]_vars

\* C27 witness: a student's submit of another student's attempt, in progress
\* and holding an answer, was answered 403 while the caller has an attempt of
\* their own.
C27_Witness ==
    /\ resp.op = "submit"
    /\ resp.status = 403
    /\ resp.arg \in DOMAIN attempts
    /\ attempts[resp.arg].student_id # resp.user
    /\ ~attempts[resp.arg].is_completed
    /\ AnswersOf(answers, resp.arg) # {}
    /\ \E a \in DOMAIN attempts : attempts[a].student_id = resp.user

\* C28: of every attempt, is_completed is false exactly when submitted_at is
\* null and exactly when score, total_points and max_points are all null; a
\* completed attempt has submitted_at, score, total_points and max_points.
C28_AttemptCoherent ==
    \A a \in DOMAIN attempts :
        /\ ~attempts[a].is_completed <=> attempts[a].submitted_at = NULL
        /\ ~attempts[a].is_completed
                <=> /\ attempts[a].score = NULL
                    /\ attempts[a].total_points = NULL
                    /\ attempts[a].max_points = NULL
        /\ attempts[a].is_completed
                => /\ attempts[a].submitted_at # NULL
                   /\ attempts[a].score # NULL
                   /\ attempts[a].total_points # NULL
                   /\ attempts[a].max_points # NULL

\* C28 witness: a submit has completed one attempt, a minute after its start,
\* and a later attempt of the student is in progress.
C28_Witness ==
    /\ resp.op = "start"
    /\ resp.status = 201
    /\ \E a, b \in DOMAIN attempts :
            /\ attempts[a].is_completed
            /\ attempts[a].submitted_at > attempts[a].started_at
            /\ attempts[a].max_points > 0
            /\ ~attempts[b].is_completed
            /\ b = resp.id

\* C29: the option an answer row names is an option of the answer's own
\* question, and no answer row holds both a text and an option.
C29_OptionOfOwnQuestion ==
    \A x \in DOMAIN answers :
        /\ answers[x].option_id # NULL
                => /\ answers[x].option_id \in DOMAIN options
                   /\ options[answers[x].option_id].question_id
                        = answers[x].question_id
        /\ ~(answers[x].answer_text # NullText /\ answers[x].option_id # NULL)

\* C30: a submit of an attempt in progress by the attempt's student is
\* answered with success and leaves the attempt completed, whatever the time
\* since its start, the quiz's is_active and max_attempts, and the answers
\* saved.
C30_SubmitSucceeds ==
    [][(/\ resp'.op = "submit"
        /\ resp'.arg \in DOMAIN attempts
        /\ ~attempts[resp'.arg].is_completed
        /\ attempts[resp'.arg].student_id = resp'.user)
            => /\ resp'.status = 200
               /\ attempts'[resp'.arg].is_completed]_vars

====
